---------------------------- MODULE Spec2Model ----------------------------
(* A state-machine model of the lax hypergraph builder                      *)
(* (src/src/lax/hypergraph.rs) and of the indexed coproduct                 *)
(* (src/src/indexed_coproduct/arrow.rs) over the Vec backend                *)
(* (src/src/array/vec.rs).                                                  *)
(*                                                                          *)
(* Rust vectors are modelled as TLA+ sequences.  NodeId and EdgeId are the  *)
(* 0-based indices of the code; At(s, i) reads the element the code reads   *)
(* with s[i].  A panic (an index out of bounds, an unwrap or expect on      *)
(* None) ends the run: call.ok becomes FALSE, no further operation is       *)
(* taken, and the variables hold what the unwinding call left behind.       *)
EXTENDS Integers, Sequences, FiniteSets, TLC

\* ---------------------------------------------------------------- bounds
\* The number of items a hypergraph may hold: node labels, edge labels,
\* NodeIds in adjacency and NodeIds in pending pairs.
MaxSize == 7

\* The longest array handed to an IndexedCoproduct constructor (segment
\* lengths or payload) and the largest segment length.
MaxLen == 2

\* The largest codomain of a payload handed to a constructor.
MaxTarget == 2

NodeLabels == {"a", "b"}
EdgeLabels == {"f"}

\* Option<T>: None is the empty tuple and Some(x) the one-element tuple.
None == <<>>
Some(x) == <<x>>
Unwrap(o) == o[1]
Unit == "()"

VARIABLES
    nodes,      \* Hypergraph::nodes     : Vec<O>
    edges,      \* Hypergraph::edges     : Vec<A>
    adjacency,  \* Hypergraph::adjacency : Vec<Hyperedge>
    quotient,   \* Hypergraph::quotient  : (Vec<NodeId>, Vec<NodeId>)
    call,       \* the last call: its name (fn), arguments (in), whether it
                \* returned (ok), what it returned (out), and whether it is a
                \* quotient() right after a quotient() (twice)
    alloc,      \* history: the largest NodeId / EdgeId handed out so far
    ic          \* the last IndexedCoproduct call: fn, in, ok, out

vars == <<nodes, edges, adjacency, quotient, call, alloc, ic>>

HypergraphVars == <<nodes, edges, adjacency, quotient>>

\* ------------------------------------------------------------ sequences
At(s, i) == s[i + 1]

InRange(s, n) == \A k \in 1..Len(s) : s[k] < n

RECURSIVE SeqsUpTo(_, _)
SeqsUpTo(S, k) ==
    IF k = 0 THEN {<<>>}
    ELSE LET shorter == SeqsUpTo(S, k - 1)
         IN  shorter \cup {Append(s, x) : s \in {t \in shorter : Len(t) = k - 1}, x \in S}

RECURSIVE Sum(_)
Sum(s) == IF s = <<>> THEN 0 ELSE Head(s) + Sum(Tail(s))

SetMin(S) == CHOOSE x \in S : \A y \in S : x <= y

\* ------------------------------------------------ lax::Hypergraph (pure)
\* Every operation maps the hypergraph h to [h, ok, ret]: the hypergraph it
\* leaves, whether it returned (FALSE: it panicked), and its return value.
Self == [nodes |-> nodes, edges |-> edges, adjacency |-> adjacency, quotient |-> quotient]

empty == [nodes |-> <<>>, edges |-> <<>>, adjacency |-> <<>>, quotient |-> <<<<>>, <<>>>>]

Returned(h, ret) == [h |-> h, ok |-> TRUE, ret |-> ret]
Panicked(h) == [h |-> h, ok |-> FALSE, ret |-> None]

\* Mutant: the label is not pushed.
push_node_lost(ns, w) == ns

push_node(ns, w) == Append(ns, w)

new_node(h, w) ==
    LET index == Len(h.nodes)
    IN  Returned([h EXCEPT !.nodes = push_node(@, w)], index)

new_edge(h, x, interface) ==
    LET edge_idx == Len(h.edges)
    IN  Returned([h EXCEPT !.edges = Append(@, x),
                           !.adjacency = Append(@, interface)], edge_idx)

\* source_type.into_iter().map(|t| self.new_node(t)).collect()
RECURSIVE new_nodes(_, _)
new_nodes(h, types) ==
    IF types = <<>> THEN Returned(h, <<>>)
    ELSE LET first == new_node(h, Head(types))
             rest == new_nodes(first.h, Tail(types))
         IN  Returned(rest.h, <<first.ret>> \o rest.ret)

\* Mutant: the target nodes are allocated before the source nodes.
new_operation_targets_first(h, x, source_type, target_type) ==
    LET targets == new_nodes(h, target_type)
        sources == new_nodes(targets.h, source_type)
        interface == <<sources.ret, targets.ret>>
        edge == new_edge(sources.h, x, [sources |-> sources.ret, targets |-> targets.ret])
    IN  Returned(edge.h, <<edge.ret, interface>>)

new_operation(h, x, source_type, target_type) ==
    LET sources == new_nodes(h, source_type)
        targets == new_nodes(sources.h, target_type)
        interface == <<sources.ret, targets.ret>>
        edge == new_edge(targets.h, x, [sources |-> sources.ret, targets |-> targets.ret])
    IN  Returned(edge.h, <<edge.ret, interface>>)

unify(h, v, w) ==
    Returned([h EXCEPT !.quotient = <<Append(@[1], v), Append(@[2], w)>>], Unit)

\* self.adjacency[edge_id.0] panics, after new_node has pushed, when
\* edge_id.0 >= self.adjacency.len().
add_edge_source(h, edge_id, w) ==
    LET node == new_node(h, w)
    IN  IF edge_id < Len(node.h.adjacency)
        THEN Returned([node.h EXCEPT !.adjacency[edge_id + 1].sources = Append(@, node.ret)],
                      node.ret)
        ELSE Panicked(node.h)

add_edge_target(h, edge_id, w) ==
    LET node == new_node(h, w)
    IN  IF edge_id < Len(node.h.adjacency)
        THEN Returned([node.h EXCEPT !.adjacency[edge_id + 1].targets = Append(@, node.ret)],
                      node.ret)
        ELSE Panicked(node.h)

\* ---------------------------------------------- finite functions (crate)
\* A finite function is [table, target]: table[k] < target for every k.
\* FiniteFunction::new checks exactly that and returns None otherwise.
ff_new(table, target) ==
    IF InRange(table, target) THEN Some([table |-> table, target |-> target]) ELSE None

\* One round of label propagation over the graph (s, t) on n nodes: every
\* node takes the least label among itself and its neighbours.
cc_step(lab, s, t) ==
    [v \in 1..Len(lab) |->
        SetMin({lab[v]}
               \cup {lab[At(t, k) + 1] : k \in {j \in 0..(Len(s) - 1) : At(s, j) = v - 1}}
               \cup {lab[At(s, k) + 1] : k \in {j \in 0..(Len(t) - 1) : At(t, j) = v - 1}})]

RECURSIVE cc_iterate(_, _, _, _)
cc_iterate(lab, s, t, rounds) ==
    IF rounds = 0 THEN lab ELSE cc_iterate(cc_step(lab, s, t), s, t, rounds - 1)

\* Connected components of the graph with edges s[k] -- t[k] on n nodes:
\* the component of v is named by the number of components whose least
\* member is below v's (first-occurrence order among the old ids).
connected_components(s, t, n) ==
    LET least == cc_iterate([v \in 1..n |-> v - 1], s, t, n)
        reps == {least[v] : v \in 1..n}
    IN  [table |-> [v \in 1..n |-> Cardinality({r \in reps : r < least[v]})],
         target |-> Cardinality(reps)]

\* FiniteFunction::coequalizer: None unless s and t have the same source and
\* target; the component search indexes its n-element tables with the
\* values of s and t, so a value >= n is no result either.
ff_coequalizer(s, t) ==
    IF Len(s.table) # Len(t.table) \/ s.target # t.target THEN None
    ELSE IF ~InRange(s.table, s.target) \/ ~InRange(t.table, t.target) THEN None
    ELSE Some(connected_components(s.table, t.table, s.target))

\* coequalizer_universal(q, f): scatter f along q, then check q ; u = f.
coequalizer_universal(q, f) ==
    IF Len(q.table) # Len(f) THEN None
    ELSE LET u == [k \in 1..q.target |->
                     LET pre == {v \in 1..Len(f) : q.table[v] = k - 1}
                     IN  f[CHOOSE v \in pre : \A o \in pre : o <= v]]
         IN  IF \A v \in 1..Len(f) : u[q.table[v] + 1] = f[v] THEN Some(u) ELSE None

\* --------------------------------------------------------------- quotient
\* A None of the collaborator is the panic of expect.
coequalizer(h) ==
    LET s == [table |-> h.quotient[1], target |-> Len(h.nodes)]
        t == [table |-> h.quotient[2], target |-> Len(h.nodes)]
    IN  ff_coequalizer(s, t)

\* xs.iter_mut().for_each(|x| *x = NodeId(q.table[x.0])): the elements
\* before the first x.0 >= q.table.len() are rewritten, then the index panics.
RECURSIVE map_ids(_, _)
map_ids(xs, q) ==
    IF xs = <<>> THEN [xs |-> <<>>, ok |-> TRUE]
    ELSE IF Head(xs) >= Len(q.table) THEN [xs |-> xs, ok |-> FALSE]
    ELSE LET rest == map_ids(Tail(xs), q)
         IN  [xs |-> <<At(q.table, Head(xs))>> \o rest.xs, ok |-> rest.ok]

map_hyperedge(e, q) ==
    LET s == map_ids(e.sources, q)
        t == IF s.ok THEN map_ids(e.targets, q) ELSE [xs |-> e.targets, ok |-> FALSE]
    IN  [e |-> [sources |-> s.xs, targets |-> t.xs], ok |-> t.ok]

RECURSIVE map_hyperedges(_, _)
map_hyperedges(adj, q) ==
    IF adj = <<>> THEN [adj |-> <<>>, ok |-> TRUE]
    ELSE LET first == map_hyperedge(Head(adj), q)
         IN  IF ~first.ok THEN [adj |-> <<first.e>> \o Tail(adj), ok |-> FALSE]
             ELSE LET rest == map_hyperedges(Tail(adj), q)
                  IN  [adj |-> <<first.e>> \o rest.adj, ok |-> rest.ok]

\* Mutant: the pending pairs are kept.
keep_quotient(pending) == pending

clear_quotient(pending) == <<<<>>, <<>>>>

quotient_op(h) ==
    LET coeq == coequalizer(h)
    IN  IF coeq = None THEN Panicked(h)
        ELSE LET q == Unwrap(coeq)
                 u == coequalizer_universal(q, h.nodes)
             IN  IF u = None THEN Panicked([h EXCEPT !.nodes = <<>>])
                 ELSE LET m == map_hyperedges(h.adjacency, q)
                          h1 == [h EXCEPT !.nodes = Unwrap(u), !.adjacency = m.adj]
                      IN  IF ~m.ok THEN Panicked(h1)
                          ELSE Returned([h1 EXCEPT !.quotient = clear_quotient(@)], q)

\* ------------------------------------------------------ IndexedCoproduct
\* An indexed coproduct is [sources, values]; sources is a finite function
\* whose table holds the segment lengths, values a finite function.
\* HasLen for FiniteFunction: len() is source(), the length of the table.
ff_len(f) == Len(f.table)

\* ---- Array<VecKind, T> for VecArray<T>
concatenate(a, b) == a \o b

fill(x, n) == [k \in 1..n |-> x]

\* impl Add<&VecArray<usize>> for usize
scalar_add(c, a) == [k \in 1..Len(a) |-> a[k] + c]

\* NaturalArray::cumulative_sum: the prefix sums, the total included.
cumulative_sum(a) == [k \in 1..(Len(a) + 1) |-> Sum(SubSeq(a, 1, k - 1))]

\* get_range(lo..hi) on 0-based positions, hi excluded.
get_range(a, lo, hi) == SubSeq(a, lo + 1, hi)

\* gather: self.0[*i] panics on an index past the end; None is that panic.
gather(a, idx) ==
    IF \A k \in 1..Len(idx) : idx[k] < Len(a)
    THEN Some([k \in 1..Len(idx) |-> At(a, idx[k])])
    ELSE None

\* impl Sub<VecArray<T>> for VecArray<T>: None is the panic of assert_eq! or
\* of a usize subtraction below zero.
sub(a, b) ==
    IF Len(a) = Len(b) /\ \A k \in 1..Len(a) : a[k] >= b[k]
    THEN Some([k \in 1..Len(a) |-> a[k] - b[k]])
    ELSE None

\* NaturalArray::segmented_sum: self holds the segment sizes, x the values;
\* the sum of each consecutive group of x, read off x's prefix sums at the
\* groups' boundaries.
segmented_sum(self, x) ==
    LET ptr == cumulative_sum(self)
        sum == cumulative_sum(x)
        n == Len(ptr)
        hi == gather(sum, get_range(ptr, 1, n))
        lo == gather(sum, get_range(ptr, 0, n - 1))
    IN  IF hi = None \/ lo = None THEN None ELSE sub(Unwrap(hi), Unwrap(lo))

\* FiniteFunction::constant(a, x, b): the function a -> x + 1 + b whose
\* table is a copies of x.
ff_constant(a, x, b) == [table |-> fill(x, a), target |-> x + b + 1]

\* f | g, the tensor product of finite functions f : A -> B and g : C -> D:
\* f's table followed by g's shifted by B, into B + D.
ff_tensor(f, g) ==
    [table |-> concatenate(f.table, scalar_add(f.target, g.table)),
     target |-> f.target + g.target]

\* Mutant: the sum is not checked against the payload.
from_semifinite_unchecked(sources, values) ==
    LET sum == Sum(sources)
    IN  Some([sources |-> Unwrap(ff_new(sources, sum + 1)), values |-> values])

from_semifinite(sources, values) ==
    LET sum == Sum(sources)
    IN  IF sum # ff_len(values) THEN None
        ELSE Some([sources |-> Unwrap(ff_new(sources, sum + 1)), values |-> values])

\* Mutant: the arguments of constant are swapped.
singleton_swapped(values) ==
    LET n == ff_len(values)
    IN  [sources |-> ff_constant(n, 1, 0), values |-> values]

singleton(values) ==
    LET n == ff_len(values)
    IN  [sources |-> ff_constant(1, n, 0), values |-> values]

\* Mutant: the shared unit of the two codomains is not subtracted.
tensor_targets_added(a, b) ==
    LET table == concatenate(a.sources.table, b.sources.table)
        target == a.sources.target + b.sources.target
    IN  [sources |-> [table |-> table, target |-> target],
         values |-> ff_tensor(a.values, b.values)]

tensor(a, b) ==
    LET table == concatenate(a.sources.table, b.sources.table)
        target == (a.sources.target + b.sources.target) - 1
    IN  [sources |-> [table |-> table, target |-> target],
         values |-> ff_tensor(a.values, b.values)]

\* Mutant: the codomain of the offsets is taken from self.
flatmap_target_self(self, other) ==
    LET table == segmented_sum(self.sources.table, other.sources.table)
    IN  IF table = None THEN None
        ELSE Some([sources |-> [table |-> Unwrap(table), target |-> self.sources.target],
                   values |-> other.values])

\* None is the panic of segmented_sum.
flatmap(self, other) ==
    LET table == segmented_sum(self.sources.table, other.sources.table)
    IN  IF table = None THEN None
        ELSE Some([sources |-> [table |-> Unwrap(table), target |-> other.sources.target],
                   values |-> other.values])

\* ----------------------------------------------------------- to_hypergraph
\* for e in h.adjacency.iter() { lengths.push(..len()); values.extend(..) }
RECURSIVE source_lengths(_)
source_lengths(adj) ==
    IF adj = <<>> THEN <<>> ELSE <<Len(Head(adj).sources)>> \o source_lengths(Tail(adj))

RECURSIVE source_values(_)
source_values(adj) ==
    IF adj = <<>> THEN <<>> ELSE Head(adj).sources \o source_values(Tail(adj))

RECURSIVE target_lengths(_)
target_lengths(adj) ==
    IF adj = <<>> THEN <<>> ELSE <<Len(Head(adj).targets)>> \o target_lengths(Tail(adj))

RECURSIVE target_values(_)
target_values(adj) ==
    IF adj = <<>> THEN <<>> ELSE Head(adj).targets \o target_values(Tail(adj))

\* One direction of make_hypergraph: None stands for the panic of either
\* expect ("invalid lax::Hypergraph!", "valid IndexedCoproduct").
make_coproduct(lengths, values, n) ==
    LET f == ff_new(values, n)
    IN  IF f = None THEN None ELSE from_semifinite(lengths, Unwrap(f))

\* Mutant: the target coproduct is built from the sources.
make_hypergraph_sources_twice(h) ==
    LET s == make_coproduct(source_lengths(h.adjacency), source_values(h.adjacency),
                            Len(h.nodes))
        t == make_coproduct(source_lengths(h.adjacency), source_values(h.adjacency),
                            Len(h.nodes))
    IN  IF s = None \/ t = None THEN Panicked(h)
        ELSE Returned(h, [s |-> Unwrap(s), t |-> Unwrap(t), w |-> h.nodes, x |-> h.edges])

make_hypergraph(h) ==
    LET s == make_coproduct(source_lengths(h.adjacency), source_values(h.adjacency),
                            Len(h.nodes))
        t == make_coproduct(target_lengths(h.adjacency), target_values(h.adjacency),
                            Len(h.nodes))
    IN  IF s = None \/ t = None THEN Panicked(h)
        ELSE Returned(h, [s |-> Unwrap(s), t |-> Unwrap(t), w |-> h.nodes, x |-> h.edges])

to_hypergraph(h) == make_hypergraph(h)

\* ------------------------------------------------------------- the machine
RECURSIVE Arity(_)
Arity(adj) ==
    IF adj = <<>> THEN 0
    ELSE Len(Head(adj).sources) + Len(Head(adj).targets) + Arity(Tail(adj))

Size(h) == Len(h.nodes) + Len(h.edges) + Arity(h.adjacency)
           + Len(h.quotient[1]) + Len(h.quotient[2])

Fits(h) == Size(h) <= MaxSize

\* NodeId arguments: every id in range and the first one out of range.
NodeIds == 0..Len(nodes)

\* EdgeId arguments, likewise.
EdgeIds == 0..Len(edges)

\* ------------------------------------------------- the allocation history
Max(a, b) == IF a >= b THEN a ELSE b

RECURSIVE SeqMax(_)
SeqMax(s) == IF s = <<>> THEN -1 ELSE Max(Head(s), SeqMax(Tail(s)))

\* The NodeIds / EdgeIds the call c handed to its caller (a call that
\* panicked handed out none).
ReturnedNodeIds(c) ==
    IF ~c.ok THEN <<>>
    ELSE IF c.fn \in {"new_node", "add_edge_source", "add_edge_target"} THEN <<c.out>>
    ELSE IF c.fn = "new_operation" THEN c.out[2][1] \o c.out[2][2]
    ELSE <<>>

ReturnedEdgeIds(c) ==
    IF ~c.ok THEN <<>>
    ELSE IF c.fn = "new_edge" THEN <<c.out>>
    ELSE IF c.fn = "new_operation" THEN <<c.out[1]>>
    ELSE <<>>

\* alloc.node: the largest NodeId handed out so far; alloc.nodeQ: the largest
\* handed out since the last quotient() that returned; alloc.edge: the
\* largest EdgeId handed out so far (-1: none yet).
\* The history is kept only where alloc.on is set.
Track ==
    alloc' = IF ~alloc.on THEN alloc
             ELSE [on |-> TRUE,
                   node |-> Max(alloc.node, SeqMax(ReturnedNodeIds(call'))),
                   nodeQ |-> IF call'.fn = "quotient" /\ call'.ok THEN -1
                             ELSE Max(alloc.nodeQ, SeqMax(ReturnedNodeIds(call'))),
                   edge |-> Max(alloc.edge, SeqMax(ReturnedEdgeIds(call')))]


InitHypergraph ==
    /\ nodes = empty.nodes
    /\ edges = empty.edges
    /\ adjacency = empty.adjacency
    /\ quotient = empty.quotient
    /\ call = [fn |-> "empty", in |-> <<>>, ok |-> TRUE, out |-> Unit, twice |-> FALSE]
    /\ ic = [fn |-> "none", in |-> <<>>, ok |-> TRUE, out |-> None]

Init ==
    /\ InitHypergraph
    /\ alloc = [on |-> FALSE, node |-> -1, nodeQ |-> -1, edge |-> -1]

InitAlloc ==
    /\ InitHypergraph
    /\ alloc = [on |-> TRUE, node |-> -1, nodeQ |-> -1, edge |-> -1]

Do(op, args, r) ==
    /\ Fits(r.h)
    /\ nodes' = r.h.nodes
    /\ edges' = r.h.edges
    /\ adjacency' = r.h.adjacency
    /\ quotient' = r.h.quotient
    /\ call' = [fn |-> op, in |-> args, ok |-> r.ok, out |-> r.ret,
                twice |-> (op = "quotient" /\ call.fn = "quotient")]
    /\ Track
    /\ UNCHANGED ic

Room == MaxSize - Size(Self)

NewNode ==
    /\ call.ok
    /\ \E w \in NodeLabels : Do("new_node", <<w>>, new_node(Self, w))

NewEdge ==
    /\ call.ok
    /\ Room >= 1
    /\ \E x \in EdgeLabels :
       \E s \in SeqsUpTo(NodeIds, Room - 1) :
       \E t \in SeqsUpTo(NodeIds, Room - 1 - Len(s)) :
         Do("new_edge", <<x, s, t>>, new_edge(Self, x, [sources |-> s, targets |-> t]))

NewOperation ==
    /\ call.ok
    /\ Room >= 1
    /\ \E x \in EdgeLabels :
       \E st \in SeqsUpTo(NodeLabels, (Room - 1) \div 2) :
       \E tt \in SeqsUpTo(NodeLabels, (Room - 1) \div 2 - Len(st)) :
         Do("new_operation", <<x, st, tt>>, new_operation(Self, x, st, tt))

Unify ==
    /\ call.ok
    /\ \E v \in NodeIds, w \in NodeIds : Do("unify", <<v, w>>, unify(Self, v, w))

AddEdgeSource ==
    /\ call.ok
    /\ \E edge_id \in EdgeIds, w \in NodeLabels :
         Do("add_edge_source", <<edge_id, w>>, add_edge_source(Self, edge_id, w))

AddEdgeTarget ==
    /\ call.ok
    /\ \E edge_id \in EdgeIds, w \in NodeLabels :
         Do("add_edge_target", <<edge_id, w>>, add_edge_target(Self, edge_id, w))

Quotient ==
    /\ call.ok
    /\ Do("quotient", <<>>, quotient_op(Self))

ToHypergraph ==
    /\ call.ok
    /\ Do("to_hypergraph", <<>>, to_hypergraph(Self))

Next ==
    \/ NewNode
    \/ NewEdge
    \/ NewOperation
    \/ Unify
    \/ AddEdgeSource
    \/ AddEdgeTarget
    \/ Quotient
    \/ ToHypergraph

Spec == Init /\ [][Next]_vars

\* The operations that build and quotient, with the allocation history kept.
NextAlloc ==
    \/ NewNode
    \/ NewEdge
    \/ NewOperation
    \/ Unify
    \/ AddEdgeSource
    \/ AddEdgeTarget
    \/ Quotient

SpecAlloc == InitAlloc /\ [][NextAlloc]_vars

\* The builder alone: the four operations that add nodes and edges.
NextBuild ==
    \/ NewNode
    \/ NewEdge
    \/ AddEdgeSource
    \/ AddEdgeTarget

SpecBuild == Init /\ [][NextBuild]_vars

\* --------------------------------------------- the IndexedCoproduct calls
\* The arguments: segment-length arrays, payloads (finite functions), and
\* the coproducts the constructors build from them.
SegmentLengths == SeqsUpTo(0..MaxLen, MaxLen)

Payloads ==
    UNION {{[table |-> t, target |-> n] : t \in SeqsUpTo(0..(n - 1), MaxLen)} : n \in 0..MaxTarget}

Coproducts ==
    {Unwrap(c) : c \in {from_semifinite(L, V) : L \in SegmentLengths, V \in Payloads} \ {None}}
    \cup {singleton(V) : V \in Payloads}

\* One call is made on the arguments drawn; r is its Option result.
DoIC(fn, args, r) ==
    /\ ic' = [fn |-> fn, in |-> args, ok |-> r # None, out |-> r]
    /\ UNCHANGED <<HypergraphVars, call, alloc>>

FromSemifinite ==
    /\ ic.fn = "none"
    /\ \E L \in SegmentLengths, V \in Payloads :
         DoIC("from_semifinite", <<L, V>>, from_semifinite(L, V))

Singleton ==
    /\ ic.fn = "none"
    /\ \E V \in Payloads : DoIC("singleton", <<V>>, Some(singleton(V)))

Tensor ==
    /\ ic.fn = "none"
    /\ \E a \in Coproducts, b \in Coproducts :
         DoIC("tensor", <<a, b>>, Some(tensor(a, b)))

NextIC ==
    \/ FromSemifinite
    \/ Singleton
    \/ Tensor

SpecIC == Init /\ [][NextIC]_vars

\* The precondition of flatmap, which the caller guarantees and the code
\* does not check: self's payload has one entry per segment of other.
Composable(self, other) == ff_len(self.values) = Len(other.sources.table)

\* flatmap only clones a payload and reads its length, so its arguments are
\* drawn with the payloads whose table repeats one value.
FlatmapCoproducts ==
    {c \in Coproducts : \A k \in 1..ff_len(c.values) : c.values.table[k] = c.values.table[1]}

\* x.flatmap(y) on any two coproducts, composable or not.
Flatmap ==
    /\ ic.fn = "none"
    /\ \E x \in FlatmapCoproducts, y \in FlatmapCoproducts :
         DoIC("flatmap", <<x, y>>, flatmap(x, y))

\* x.flatmap(y).flatmap(z) by a caller that keeps the precondition: flatmap
\* on the coproduct the last flatmap returned; the third argument recorded
\* is where the receiver came from.
FlatmapFlatmap ==
    /\ ic.fn = "flatmap" /\ ic.ok /\ Len(ic.in) = 2
    /\ Composable(ic.in[1], ic.in[2])
    /\ \E z \in FlatmapCoproducts :
         /\ Composable(ic.in[2], z)
         /\ DoIC("flatmap", <<Unwrap(ic.out), z, ic.in>>, flatmap(Unwrap(ic.out), z))

NextFlatmap ==
    \/ Flatmap
    \/ FlatmapFlatmap

SpecFlatmap == Init /\ [][NextFlatmap]_vars

\* ==================================================================== claims

IdSeq(n) == [v \in 1..n |-> v - 1]

Range(sq) == {sq[k] : k \in 1..Len(sq)}

AdjacencyInRange(adj, n) ==
    \A k \in 1..Len(adj) : InRange(adj[k].sources, n) /\ InRange(adj[k].targets, n)

\* The pending relation on n nodes as a set of pairs, and the equivalence
\* it generates (reflexive, symmetric, transitive closure).
PendingPairs(p) == {<<p[1][k], p[2][k]>> : k \in 1..Len(p[1])}

RECURSIVE Closure(_, _)
Closure(R, rounds) ==
    IF rounds = 0 THEN R
    ELSE Closure(R \cup {<<z[1][1], z[2][2]>> : z \in {y \in R \X R : y[1][2] = y[2][1]}},
                 rounds - 1)

Linked(p, n) ==
    LET P == PendingPairs(p)
    IN  Closure({<<v, v>> : v \in 0..(n - 1)} \cup P \cup {<<x[2], x[1]>> : x \in P}, n)

\* ---- C1 -------------------------------------------------------------------
\* C1: in every state reached from empty() by new_node, new_edge,
\* add_edge_source and add_edge_target, every NodeId in an adjacency entry's
\* sources or targets is strictly less than len(nodes).
C1_AdjacencyInRange == AdjacencyInRange(adjacency, Len(nodes))

\* ---- C2 -------------------------------------------------------------------
C2_Pre ==
    /\ InRange(quotient[1], Len(nodes))
    /\ InRange(quotient[2], Len(nodes))
    /\ \A x \in PendingPairs(quotient) : At(nodes, x[1]) = At(nodes, x[2])

C2_Post ==
    /\ call'.ok
    /\ LET q == call'.out
           N == Len(nodes)
           L == Linked(quotient, N)
       IN  /\ Len(q.table) = N
           /\ Range(q.table) = 0..(q.target - 1)
           /\ q.target = Cardinality({{w \in 0..(N - 1) : <<v, w>> \in L} : v \in 0..(N - 1)})
           /\ \A v, w \in 0..(N - 1) : (At(q.table, v) = At(q.table, w)) <=> (<<v, w>> \in L)
           /\ Len(nodes') = q.target
           /\ \A v \in 0..(N - 1) : At(nodes', At(q.table, v)) = At(nodes, v)
           /\ Len(adjacency') = Len(adjacency)
           /\ \A k \in 1..Len(adjacency) :
                /\ Len(adjacency'[k].sources) = Len(adjacency[k].sources)
                /\ Len(adjacency'[k].targets) = Len(adjacency[k].targets)
                /\ \A j \in 1..Len(adjacency[k].sources) :
                     adjacency'[k].sources[j] = At(q.table, adjacency[k].sources[j])
                /\ \A j \in 1..Len(adjacency[k].targets) :
                     adjacency'[k].targets[j] = At(q.table, adjacency[k].targets[j])

\* C2: on a hypergraph with N nodes whose pending pairs are in range and join
\* only equally-labelled nodes, quotient() returns q from [0,N) onto [0,M), M
\* the number of components of the pending relation, q(v) = q(w) exactly when
\* v and w are linked; afterwards len(nodes) = M, each new node carries the
\* label of the old nodes mapped to it, and every adjacency NodeId x has become
\* q(x), order and arity kept.
C2_QuotientCorrect ==
    [][(call'.fn = "quotient" /\ C2_Pre) => C2_Post]_vars

\* C2 on the hypergraphs whose adjacency NodeIds are in range as well: there
\* the statement of C2 holds.
C2_QuotientCorrectInRange ==
    [][(call'.fn = "quotient" /\ C2_Pre /\ AdjacencyInRange(adjacency, Len(nodes)))
         => C2_Post]_vars

\* A quotient that merged the pending pairs of a graph with an edge.
C2_Witness ==
    /\ call.fn = "quotient" /\ call.ok
    /\ call.out.table = <<0, 0, 1>>
    /\ Len(nodes) = 2
    /\ adjacency = <<[sources |-> <<1>>, targets |-> <<>>]>>

\* ---- C3 -------------------------------------------------------------------
\* C3: a quotient() that returns leaves the pending relation empty, and a
\* quotient() called right after a quotient() that returned returns the
\* identity on the current nodes and leaves nodes and adjacency as they were.
C3_QuotientIdempotent ==
    [][/\ (call'.fn = "quotient" /\ call'.ok) => quotient' = <<<<>>, <<>>>>
       /\ (call.fn = "quotient" /\ call.ok /\ call'.fn = "quotient")
            => /\ call'.ok
               /\ call'.out = [table |-> IdSeq(Len(nodes)), target |-> Len(nodes)]
               /\ nodes' = nodes
               /\ adjacency' = adjacency]_vars

\* The second of two quotient() calls in a row has returned, on a graph with
\* nodes and an edge.
C3_Witness ==
    /\ call.fn = "quotient" /\ call.ok /\ call.twice
    /\ Len(nodes) >= 2
    /\ \E k \in 1..Len(adjacency) : adjacency[k].sources # <<>>

\* ---- C4 -------------------------------------------------------------------
StrictlyIncreasing(sq) == \A i, j \in 1..Len(sq) : i < j => sq[i] < sq[j]

\* C4 as stated: over any sequence of operations every NodeId an allocating
\* call returns exceeds every NodeId returned earlier, and likewise EdgeIds.
C4_NeverReused ==
    [][/\ StrictlyIncreasing(ReturnedNodeIds(call'))
       /\ \A id \in Range(ReturnedNodeIds(call')) : id > alloc.node
       /\ \A id \in Range(ReturnedEdgeIds(call')) : id > alloc.edge]_vars

\* C4 amended: EdgeIds always increase; a NodeId exceeds every NodeId
\* returned since the last quotient() that returned.
C4_MonotonicBetweenQuotients ==
    [][/\ StrictlyIncreasing(ReturnedNodeIds(call'))
       /\ \A id \in Range(ReturnedNodeIds(call')) : id > alloc.nodeQ
       /\ \A id \in Range(ReturnedEdgeIds(call')) : id > alloc.edge]_vars

\* After a quotient() an allocating call returned a NodeId below one that was
\* handed out before the quotient, and a further call returned the next one.
C4_Witness ==
    /\ call.fn = "new_node" /\ call.ok
    /\ call.out < alloc.node
    /\ call.out = alloc.nodeQ
    /\ call.out >= 1

\* ---- C5 -------------------------------------------------------------------
C5_InconsistentMerge ==
    /\ InRange(quotient[1], Len(nodes))
    /\ InRange(quotient[2], Len(nodes))
    /\ \E x \in Linked(quotient, Len(nodes)) : At(nodes, x[1]) # At(nodes, x[2])

C5_FailedCase ==
    /\ ~call'.ok
    /\ \/ call'.fn = "quotient" /\ C5_InconsistentMerge
       \/ call'.fn \in {"add_edge_source", "add_edge_target"}
            /\ call'.in[1] >= Len(edges)

\* C5: a quotient() that fails on differently-labelled identified nodes, and
\* an add_edge_source / add_edge_target that fails on edge_id >= len(edges),
\* leave nodes, edges, adjacency and the pending relation as they were.
C5_FailureLeavesState ==
    [][C5_FailedCase => UNCHANGED HypergraphVars]_vars

\* C5, the quotient() case alone.
C5_QuotientFailureLeavesState ==
    [][(C5_FailedCase /\ call'.fn = "quotient") => UNCHANGED HypergraphVars]_vars

\* ---- C6 -------------------------------------------------------------------
\* C6: new_operation(x, st, tt) on n nodes and e edges returns EdgeId e and
\* the interface of the fresh NodeIds n .. n+|st|-1 and the next |tt| ones;
\* the new nodes carry the labels st then tt, adjacency[e] is the returned
\* interface, and the earlier nodes, edges, adjacency entries and pending
\* pairs are unchanged.
C6_NewOperationFresh ==
    [][call'.fn = "new_operation" =>
         LET x == call'.in[1]
             st == call'.in[2]
             tt == call'.in[3]
             n == Len(nodes)
             e == Len(edges)
             sources == [k \in 1..Len(st) |-> n + k - 1]
             targets == [k \in 1..Len(tt) |-> n + Len(st) + k - 1]
         IN  /\ call'.ok
             /\ call'.out = <<e, <<sources, targets>>>>
             /\ \A id \in Range(sources) \cup Range(targets) : id >= n
             /\ nodes' = nodes \o st \o tt
             /\ edges' = Append(edges, x)
             /\ adjacency' = Append(adjacency, [sources |-> sources, targets |-> targets])
             /\ quotient' = quotient]_vars

\* new_operation has added an edge with a source and a target to a graph
\* that already held a node and an edge.
C6_Witness ==
    /\ call.fn = "new_operation" /\ call.ok
    /\ call.out = <<1, <<<<1>>, <<2>>>>>>
    /\ Len(nodes) = 3
    /\ Len(adjacency) = 2

\* ---- C7 -------------------------------------------------------------------
\* The first position of edge k's segment in the flat payload.
C7_Offset(lengths, k) == Sum(SubSeq(lengths, 1, k - 1))

\* c is the coproduct of the lists ids[1], ..., ids[E], one per edge.
C7_Coproduct(c, ids) ==
    LET E == Len(edges)
        lengths == [k \in 1..E |-> Len(ids[k])]
    IN  /\ Len(ids) = E
        /\ Len(c.sources.table) = E
        /\ c.sources.table = lengths
        /\ c.sources.target = Sum(lengths) + 1
        /\ Len(c.values.table) = Sum(lengths)
        /\ c.values.target = Len(nodes)
        /\ \A k \in 1..E : \A j \in 1..lengths[k] :
             c.values.table[C7_Offset(lengths, k) + j] = ids[k][j]

C7_Sources == [k \in 1..Len(adjacency) |-> adjacency[k].sources]

C7_Targets == [k \in 1..Len(adjacency) |-> adjacency[k].targets]

\* C7: to_hypergraph returns exactly when every adjacency NodeId is below
\* len(nodes); then each direction has one segment per edge, in edge order,
\* of the edge's arity, the payload is the edges' NodeIds concatenated with
\* codomain len(nodes), and the label arrays are the hypergraph's; the call
\* leaves the hypergraph as it was.
C7_ToHypergraph ==
    [][call'.fn = "to_hypergraph" =>
         /\ UNCHANGED HypergraphVars
         /\ call'.ok <=> AdjacencyInRange(adjacency, Len(nodes))
         /\ call'.ok =>
              /\ C7_Coproduct(call'.out.s, C7_Sources)
              /\ C7_Coproduct(call'.out.t, C7_Targets)
              /\ call'.out.w = nodes
              /\ call'.out.x = edges]_vars

\* to_hypergraph on a sole edge with two sources and one target.
C7_Witness ==
    /\ call.fn = "to_hypergraph" /\ call.ok
    /\ Len(edges) = 1
    /\ call.out.s.sources.table = <<2>>
    /\ call.out.t.sources.table = <<1>>
    /\ Len(call.out.s.values.table) = 2

\* to_hypergraph has failed on an out-of-range NodeId.
C7_WitnessFailed ==
    call.fn = "to_hypergraph" /\ ~call.ok

\* ---- C8 -------------------------------------------------------------------
\* The sum of an array, from its indices.
Total(a) ==
    LET acc[k \in 0..Len(a)] == IF k = 0 THEN 0 ELSE acc[k - 1] + a[k]
    IN  acc[Len(a)]

\* C8: from_semifinite(L, V) returns a coproduct exactly when sum(L) = len(V);
\* it then has len(L) segments, its sources table is L, its sources codomain
\* is sum(L) + 1 and its values are V.
C8_FromSemifinite ==
    ic.fn = "from_semifinite" =>
      LET L == ic.in[1]
          V == ic.in[2]
      IN  /\ ic.ok <=> Total(L) = Len(V.table)
          /\ ic.ok <=> ic.out # None
          /\ ic.ok =>
               /\ Len(Unwrap(ic.out).sources.table) = Len(L)
               /\ Unwrap(ic.out).sources.table = L
               /\ Unwrap(ic.out).sources.target = Total(L) + 1
               /\ Unwrap(ic.out).values = V

\* from_semifinite has built a coproduct of two segments, one of them empty.
C8_Witness ==
    /\ ic.fn = "from_semifinite" /\ ic.ok
    /\ ic.in[1] = <<2, 0>>
    /\ Unwrap(ic.out).sources = [table |-> <<2, 0>>, target |-> 3]

\* from_semifinite has refused a payload longer than the segments' sum.
C8_WitnessFailed ==
    /\ ic.fn = "from_semifinite" /\ ~ic.ok
    /\ ic.in[1] = <<1>>
    /\ Len(ic.in[2].table) = 2

\* ---- C9 -------------------------------------------------------------------
\* C9 as stated: singleton(values) yields len(values) segments, each of
\* length 1, with payload values.
C9_SingletonUnitSegments ==
    ic.fn = "singleton" =>
      /\ ic.ok
      /\ Len(Unwrap(ic.out).sources.table) = Len(ic.in[1].table)
      /\ \A k \in 1..Len(Unwrap(ic.out).sources.table) : Unwrap(ic.out).sources.table[k] = 1
      /\ Unwrap(ic.out).values = ic.in[1]

\* C9 amended: singleton(values) always returns, and yields one segment of
\* length len(values) with sources codomain len(values) + 1 and payload values.
C9_SingletonOneSegment ==
    ic.fn = "singleton" =>
      /\ ic.ok
      /\ Unwrap(ic.out).sources.table = <<Len(ic.in[1].table)>>
      /\ Unwrap(ic.out).sources.target = Len(ic.in[1].table) + 1
      /\ Unwrap(ic.out).values = ic.in[1]

\* singleton of a payload of two values.
C9_Witness ==
    /\ ic.fn = "singleton" /\ ic.ok
    /\ ic.in[1] = [table |-> <<1, 0>>, target |-> 2]

\* ---- C10 ------------------------------------------------------------------
\* The invariant of an indexed coproduct.
CoproductInvariant(c) ==
    /\ c.sources.target = Total(c.sources.table) + 1
    /\ c.sources.target = Len(c.values.table) + 1

C11_GroupSum(L, y, i) ==
    LET first == Total(SubSeq(L, 1, i - 1))
    IN  Total(SubSeq(y, first + 1, first + L[i]))

C11_Valid(x, y) ==
    /\ CoproductInvariant(x) /\ CoproductInvariant(y)
    /\ Len(x.values.table) = Len(y.sources.table)

\* C11: for valid x and y with len(x.values) = y.len(), x.flatmap(y) returns
\* a coproduct with x.len() segments, segment i as long as the sum of y's
\* segment lengths over the i-th group of x, payload y.values, and the
\* invariant; and for a further z with len(y.values) = z.len(),
\* x.flatmap(y).flatmap(z) equals x.flatmap(y.flatmap(z)).
C11_Flatmap ==
    ic.fn = "flatmap" =>
      LET x == ic.in[1]
          y == ic.in[2]
      IN  /\ C11_Valid(x, y) =>
                /\ ic.ok
                /\ LET r == Unwrap(ic.out)
                   IN  /\ Len(r.sources.table) = Len(x.sources.table)
                       /\ \A i \in 1..Len(x.sources.table) :
                            r.sources.table[i] =
                              C11_GroupSum(x.sources.table, y.sources.table, i)
                       /\ r.values = y.values
                       /\ CoproductInvariant(r)
          /\ Len(ic.in) = 3 =>
                LET x0 == ic.in[3][1]
                    y0 == ic.in[3][2]
                    z == ic.in[2]
                IN  (C11_Valid(x0, y0) /\ C11_Valid(y0, z)) =>
                      /\ flatmap(y0, z) # None
                      /\ ic.out = flatmap(x0, Unwrap(flatmap(y0, z)))
                      /\ ic.ok

\* x.flatmap(y).flatmap(z) has returned, x's one segment gathering the two
\* segments of y, which hold the two segments of z.
C11_Witness ==
    /\ ic.fn = "flatmap" /\ ic.ok /\ Len(ic.in) = 3
    /\ C11_Valid(ic.in[3][1], ic.in[3][2]) /\ C11_Valid(ic.in[3][2], ic.in[2])
    /\ ic.in[3][1].sources.table = <<2>>
    /\ ic.in[3][2].sources.table = <<1, 1>>
    /\ ic.in[2].sources.table = <<1, 1>>
    /\ ic.in[1].sources.table = <<2>>
    /\ Unwrap(ic.out).sources.table = <<2>>
    /\ Unwrap(ic.out).values.table = <<1, 1>>

=============================================================================
